---- MODULE Spec2Model ----
(***************************************************************************)
(* Model of EvalSetting (src/config/eval_setting.py): a record of four     *)
(* evaluation options (grouping, ordering, splitting, negative sampling)   *)
(* filled from a configuration source at construction and changed by       *)
(* setter methods.                                                         *)
(*                                                                         *)
(* Python values are encoded uniformly so that any two of them can be      *)
(* compared: a value is a record [tag, s, n, l] with tag one of "none",    *)
(* "str", "bool", "int", "list"; s carries a string, n an integer (0/1 for *)
(* a bool), l the elements of a list.  A dict attribute is [tag, d] with   *)
(* tag "none" (Python None) or "dict" and d a function from keys to        *)
(* values.  Every raise in the source is a ValueError; err records which   *)
(* raise was taken, under the error names the specification gives them.    *)
(***************************************************************************)
EXTENDS Integers, Sequences, FiniteSets, TLC

VARIABLES config, group_field, ordering_args, split_args, neg_sample_args,
          call, err

vars == <<config, group_field, ordering_args, split_args, neg_sample_args,
          call, err>>

-----------------------------------------------------------------------------
(* Python values *)

PyNone == [tag |-> "none", s |-> "", n |-> 0, l |-> <<>>]
PyStr(x) == [tag |-> "str", s |-> x, n |-> 0, l |-> <<>>]
PyInt(x) == [tag |-> "int", s |-> "", n |-> x, l |-> <<>>]
PyBool(b) == [tag |-> "bool", s |-> "", n |-> IF b THEN 1 ELSE 0, l |-> <<>>]
PyList(q) == [tag |-> "list", s |-> "", n |-> 0, l |-> q]

PyTrue == PyBool(TRUE)
PyFalse == PyBool(FALSE)

EmptyDict == [k \in {} |-> PyNone]
NoArgs == [tag |-> "none", d |-> EmptyDict]
Dict(d) == [tag |-> "dict", d |-> d]

\* dict.update(kwargs): keys of kwargs are added or overwritten
update(d, kwargs) ==
    [k \in DOMAIN d \cup DOMAIN kwargs |->
        IF k \in DOMAIN kwargs THEN kwargs[k] ELSE d[k]]

\* len(x) for a str or a list
len(x) == IF x.tag = "str" THEN Len(x.s) ELSE Len(x.l)

\* [True] * k
TrueTimes(k) == PyList([i \in 1..k |-> PyTrue])

\* truth value of a bool or an int
truthy(x) == x.n # 0

\* isinstance(x, list), isinstance(x, str)
isinstance_list(x) == x.tag = "list"
isinstance_str(x) == x.tag = "str"

\* list.sort(reverse=r) on a list of numbers: insertion of each element in turn
RECURSIVE insert(_, _, _)
insert(q, v, reverse) ==
    IF q = <<>> THEN <<v>>
    ELSE IF (IF reverse THEN v.n > Head(q).n ELSE v.n < Head(q).n)
         THEN <<v>> \o q
         ELSE <<Head(q)>> \o insert(Tail(q), v, reverse)

RECURSIVE sort(_, _)
sort(q, reverse) ==
    IF q = <<>> THEN <<>>
    ELSE insert(sort(SubSeq(q, 1, Len(q) - 1), reverse), q[Len(q)], reverse)

-----------------------------------------------------------------------------
(* Bounds and inputs *)

MaxFields == 2
MaxValues == 2

FieldNames == <<"timestamp", "price", "month", "user_id">>
ValueSeq == <<7, 6, 8, 5>>

\* strategy names offered to each set_* method: its legal names and a name
\* that is legal nowhere; set_splitting is also offered a name that is legal
\* for ordering only
OrderingStrategies == {"none", "shuffle", "by", "bogus"}
SplittingStrategies == {"none", "by_ratio", "by_value", "loo", "shuffle", "bogus"}
NegSamplingStrategies == {"none", "to", "by", "bogus"}

\* field arguments of sort_by: a name, or a list of names
FieldLists == {PyList([i \in 1..k |-> PyStr(FieldNames[i])]) : k \in 0..MaxFields}
FieldArgs == {PyStr("t"), PyStr("timestamp")} \cup FieldLists

\* ascending arguments of sort_by: omitted (None), or a list of bools
AscArgs == {PyNone, PyList(<<PyTrue>>)}

\* values arguments of split_by_value: a number, or a list of two or more
\* numbers that is not in ascending order
ValueLists == {PyList([i \in 1..k |-> PyInt(ValueSeq[i])]) : k \in 2..MaxValues}
ValueArgs == {PyInt(7)} \cup ValueLists

\* ratios arguments of split_by_ratio (in tenths): a list, or a bare number
RatioArgs == {PyList(<<PyInt(8), PyInt(1), PyInt(1)>>), PyInt(8)}

\* field arguments of split_by_value: a name, or something that is not a str
SplitFieldArgs == {PyStr("month"), PyList(<<PyStr("month")>>)}

\* field arguments of group_by: None (the default), or a name
GroupArgs == {PyNone, PyStr("user_id")}
ToArgs == {-1, 100}
ByArgs == {1}

OrderingKwargs ==
    {[field |-> PyList(<<PyStr("timestamp"), PyStr("price")>>),
      ascending |-> PyList(<<PyTrue, PyFalse, PyTrue>>)]}
SplitKwargs ==
    {[values |-> PyList(<<PyInt(7), PyInt(6)>>), ascending |-> PyTrue]}
NegKwargs == {[by |-> PyInt(1)]}

\* configuration sources: grouping and ordering preset with what the setters
\* would have stored and the rest absent; presets no setter would have stored
Config(g, o, s, n) ==
    [USER_ID_FIELD |-> PyStr("user_id"), group_field |-> g,
     ordering_args |-> o, split_args |-> s, neg_sample_args |-> n]
Configs ==
    {Config(PyStr("user_id"), Dict([strategy |-> PyStr("shuffle")]), NoArgs, NoArgs),
     Config(PyNone,
            Dict([strategy |-> PyStr("bogus")]),
            Dict([strategy |-> PyStr("by_value"),
                  values |-> PyList(<<PyInt(7), PyInt(6)>>),
                  ascending |-> PyFalse]),
            Dict([to |-> PyInt(100)]))}

Call(op, strategy, args) == [op |-> op, strategy |-> strategy, args |-> args]

-----------------------------------------------------------------------------
(* EvalSetting *)

\* __init__: each attribute is None unless the configuration presets it
Init ==
    /\ config \in Configs
    /\ group_field = config.group_field
    /\ ordering_args = config.ordering_args
    /\ split_args = config.split_args
    /\ neg_sample_args = config.neg_sample_args
    /\ call = Call("__init__", "", EmptyDict)
    /\ err = "ok"

group_by(field) ==
    /\ group_field' = field
    /\ err' = "ok"
    /\ UNCHANGED <<config, ordering_args, split_args, neg_sample_args>>

group_by_user ==
    /\ group_field' = config.USER_ID_FIELD
    /\ err' = "ok"
    /\ UNCHANGED <<config, ordering_args, split_args, neg_sample_args>>

legal_ordering == {"none", "shuffle", "by"}

\* variant: the new dict is stored before the strategy is validated
set_ordering_store_first(strategy, kwargs) ==
    /\ err' = IF strategy \notin legal_ordering THEN "InvalidStrategy" ELSE "ok"
    /\ ordering_args' = Dict(update([strategy |-> PyStr(strategy)], kwargs))
    /\ UNCHANGED <<config, group_field, split_args, neg_sample_args>>

\* variant: the stored dict is updated in place instead of being replaced
set_ordering_merge(strategy, kwargs) ==
    /\ IF strategy \notin legal_ordering
       THEN /\ err' = "InvalidStrategy"
            /\ ordering_args' = ordering_args
       ELSE /\ err' = "ok"
            /\ ordering_args' =
                  Dict(update(update(ordering_args.d, [strategy |-> PyStr(strategy)]),
                              kwargs))
    /\ UNCHANGED <<config, group_field, split_args, neg_sample_args>>

set_ordering(strategy, kwargs) ==
    /\ IF strategy \notin legal_ordering
       THEN /\ err' = "InvalidStrategy"
            /\ ordering_args' = ordering_args
       ELSE /\ err' = "ok"
            /\ ordering_args' = Dict(update([strategy |-> PyStr(strategy)], kwargs))
    /\ UNCHANGED <<config, group_field, split_args, neg_sample_args>>

shuffle == set_ordering("shuffle", EmptyDict)

\* variant: one True too few
default_ascending_short(field) ==
    IF len(field) = 1 THEN PyTrue ELSE TrueTimes(len(field) - 1)

default_ascending(field) ==
    IF len(TrueTimes(len(field))) = 1 THEN PyTrue ELSE TrueTimes(len(field))

sort_by(field, ascending) ==
    set_ordering("by",
        [field |-> field,
         ascending |-> IF ascending = PyNone THEN default_ascending(field)
                       ELSE ascending])

legal_splitting == {"none", "by_ratio", "by_value", "loo"}

\* self.group_by is the bound method, which is never None
group_by_is_None == FALSE

\* variant: the strategy is validated against the names of all three concerns
set_splitting_any_legal(strategy, kwargs) ==
    /\ IF strategy \notin legal_ordering \cup legal_splitting \cup {"to"}
       THEN /\ err' = "InvalidStrategy"
            /\ split_args' = split_args
       ELSE /\ err' = "ok"
            /\ split_args' = Dict(update([strategy |-> PyStr(strategy)], kwargs))
    /\ UNCHANGED <<config, group_field, ordering_args, neg_sample_args>>

set_splitting(strategy, kwargs) ==
    /\ IF strategy \notin legal_splitting
       THEN /\ err' = "InvalidStrategy"
            /\ split_args' = split_args
       ELSE IF strategy = "loo" /\ group_by_is_None
       THEN /\ err' = "MissingGrouping"
            /\ split_args' = split_args
       ELSE /\ err' = "ok"
            /\ split_args' = Dict(update([strategy |-> PyStr(strategy)], kwargs))
    /\ UNCHANGED <<config, group_field, ordering_args, neg_sample_args>>

leave_one_out == set_splitting("loo", EmptyDict)

\* variant: ratios is stored without the isinstance check
split_by_ratio_unchecked(ratios) ==
    set_splitting("by_ratio", [ratios |-> ratios])

split_by_ratio(ratios) ==
    IF ~isinstance_list(ratios)
    THEN /\ err' = "TypeMismatch"
         /\ UNCHANGED <<config, group_field, ordering_args, split_args,
                        neg_sample_args>>
    ELSE set_splitting("by_ratio", [ratios |-> ratios])

\* variant: reverse=ascending instead of reverse=(not ascending)
split_by_value_reversed(field, values, ascending) ==
    IF ~isinstance_str(field)
    THEN /\ err' = "TypeMismatch"
         /\ UNCHANGED <<config, group_field, ordering_args, split_args,
                        neg_sample_args>>
    ELSE LET as_list == IF ~isinstance_list(values) THEN <<values>>
                        ELSE values.l
         IN  set_splitting("by_value",
                 [values |-> PyList(sort(as_list, truthy(ascending))),
                  ascending |-> ascending])

split_by_value(field, values, ascending) ==
    IF ~isinstance_str(field)
    THEN /\ err' = "TypeMismatch"
         /\ UNCHANGED <<config, group_field, ordering_args, split_args,
                        neg_sample_args>>
    ELSE LET as_list == IF ~isinstance_list(values) THEN <<values>>
                        ELSE values.l
         IN  set_splitting("by_value",
                 [values |-> PyList(sort(as_list, ~truthy(ascending))),
                  ascending |-> ascending])

legal_neg_sampling == {"none", "to", "by"}

\* variant: the new dict is assigned to split_args
set_neg_sampling_into_split(strategy, kwargs) ==
    /\ IF strategy \notin legal_neg_sampling
       THEN /\ err' = "InvalidStrategy"
            /\ split_args' = split_args
       ELSE /\ err' = "ok"
            /\ split_args' = Dict(update([strategy |-> PyStr(strategy)], kwargs))
    /\ UNCHANGED <<config, group_field, ordering_args, neg_sample_args>>

set_neg_sampling(strategy, kwargs) ==
    /\ IF strategy \notin legal_neg_sampling
       THEN /\ err' = "InvalidStrategy"
            /\ neg_sample_args' = neg_sample_args
       ELSE /\ err' = "ok"
            /\ neg_sample_args' = Dict(update([strategy |-> PyStr(strategy)], kwargs))
    /\ UNCHANGED <<config, group_field, ordering_args, split_args>>

neg_sample_to(to) == set_neg_sampling("to", [to |-> PyInt(to)])

\* variant: a different sentinel
full_sort_zero == neg_sample_to(0)

full_sort == neg_sample_to(-1)

neg_sample_by(by) == set_neg_sampling("by", [by |-> PyInt(by)])

-----------------------------------------------------------------------------
(* One action per public method; call records the method and its arguments *)

GroupBy ==
    \E field \in GroupArgs :
        /\ call' = Call("group_by", "", [field |-> field])
        /\ group_by(field)

GroupByUser ==
    /\ call' = Call("group_by_user", "", EmptyDict)
    /\ group_by_user

SetOrdering ==
    \E strategy \in OrderingStrategies, kwargs \in OrderingKwargs :
        /\ call' = Call("set_ordering", strategy, kwargs)
        /\ set_ordering(strategy, kwargs)

Shuffle ==
    /\ call' = Call("shuffle", "", EmptyDict)
    /\ shuffle

SortBy ==
    \E field \in FieldArgs, ascending \in AscArgs :
        /\ call' = Call("sort_by", "", [field |-> field, ascending |-> ascending])
        /\ sort_by(field, ascending)

SetSplitting ==
    \E strategy \in SplittingStrategies, kwargs \in SplitKwargs :
        /\ call' = Call("set_splitting", strategy, kwargs)
        /\ set_splitting(strategy, kwargs)

LeaveOneOut ==
    /\ call' = Call("leave_one_out", "", EmptyDict)
    /\ leave_one_out

SplitByRatio ==
    \E ratios \in RatioArgs :
        /\ call' = Call("split_by_ratio", "", [ratios |-> ratios])
        /\ split_by_ratio(ratios)

SplitByValue ==
    \E field \in SplitFieldArgs, values \in ValueArgs, ascending \in {PyTrue, PyFalse} :
        /\ call' = Call("split_by_value", "",
                        [field |-> field, values |-> values, ascending |-> ascending])
        /\ split_by_value(field, values, ascending)

SetNegSampling ==
    \E strategy \in NegSamplingStrategies, kwargs \in NegKwargs :
        /\ call' = Call("set_neg_sampling", strategy, kwargs)
        /\ set_neg_sampling(strategy, kwargs)

NegSampleTo ==
    \E to \in ToArgs :
        /\ call' = Call("neg_sample_to", "", [to |-> PyInt(to)])
        /\ neg_sample_to(to)

FullSort ==
    /\ call' = Call("full_sort", "", EmptyDict)
    /\ full_sort

NegSampleBy ==
    \E by \in ByArgs :
        /\ call' = Call("neg_sample_by", "", [by |-> PyInt(by)])
        /\ neg_sample_by(by)

Next ==
    \/ GroupBy
    \/ GroupByUser
    \/ SetOrdering
    \/ Shuffle
    \/ SortBy
    \/ SetSplitting
    \/ LeaveOneOut
    \/ SplitByRatio
    \/ SplitByValue
    \/ SetNegSampling
    \/ NegSampleTo
    \/ FullSort
    \/ NegSampleBy

Spec == Init /\ [][Next]_vars

-----------------------------------------------------------------------------
(* Vocabulary of the properties *)

OrderingLegal == {"none", "shuffle", "by"}
SplittingLegal == {"none", "by_ratio", "by_value", "loo"}
NegSamplingLegal == {"none", "to", "by"}

\* the dict {strategy: s} together with the extra fields E
StrategyWith(s, E) ==
    Dict([k \in {"strategy"} \cup DOMAIN E |->
            IF k = "strategy" THEN PyStr(s) ELSE E[k]])

\* a spec is absent, or has a strategy entry out of the legal set
LegalSpec(spec, legal) ==
    \/ spec = NoArgs
    \/ /\ "strategy" \in DOMAIN spec.d
       /\ spec.d.strategy.tag = "str"
       /\ spec.d.strategy.s \in legal

HasStrategy(spec, s) ==
    /\ spec.tag = "dict"
    /\ "strategy" \in DOMAIN spec.d
    /\ spec.d.strategy = PyStr(s)

\* a list of numbers in the order its ascending flag asks for
SortedPer(values, ascending) ==
    /\ values.tag = "list"
    /\ \A i, j \in 1..Len(values.l) :
          i < j => IF ascending = PyTrue
                   THEN values.l[i].n <= values.l[j].n
                   ELSE values.l[i].n >= values.l[j].n

SpecsUnchanged == UNCHANGED <<group_field, ordering_args, split_args, neg_sample_args>>

-----------------------------------------------------------------------------
(* Properties *)

\* C1: a set_ordering, set_splitting or set_neg_sampling call whose strategy
\* is not in the legal set of that concern fails with InvalidStrategy and
\* leaves that concern's spec as it was before the call.
C1_InvalidStrategyRejected ==
    [][/\ (call'.op = "set_ordering" /\ call'.strategy \notin OrderingLegal)
            => (err' = "InvalidStrategy" /\ ordering_args' = ordering_args)
       /\ (call'.op = "set_splitting" /\ call'.strategy \notin SplittingLegal)
            => (err' = "InvalidStrategy" /\ split_args' = split_args)
       /\ (call'.op = "set_neg_sampling" /\ call'.strategy \notin NegSamplingLegal)
            => (err' = "InvalidStrategy" /\ neg_sample_args' = neg_sample_args)]_vars

\* a strategy that is legal for ordering only was refused by set_splitting
\* while a split spec was already stored
C1_Witness ==
    /\ call.op = "set_splitting"
    /\ call.strategy = "shuffle"
    /\ err = "InvalidStrategy"
    /\ split_args # NoArgs

\* C2 as stated: in every reachable state each of the three specs is absent
\* or has a strategy out of its concern's legal set.
C2_StrategyAlwaysLegal ==
    /\ LegalSpec(ordering_args, OrderingLegal)
    /\ LegalSpec(split_args, SplittingLegal)
    /\ LegalSpec(neg_sample_args, NegSamplingLegal)

ConfigWellFormed ==
    /\ LegalSpec(config.ordering_args, OrderingLegal)
    /\ LegalSpec(config.split_args, SplittingLegal)
    /\ LegalSpec(config.neg_sample_args, NegSamplingLegal)

\* C2 amended: when every spec the configuration source presets has a legal
\* strategy, then in every reachable state each of the three specs is absent
\* or has a strategy out of its concern's legal set.
C2_LegalFromWellFormedConfig == ConfigWellFormed => C2_StrategyAlwaysLegal

C2_Witness ==
    /\ ConfigWellFormed
    /\ call.op = "set_neg_sampling"
    /\ err = "ok"
    /\ ordering_args # NoArgs
    /\ split_args # NoArgs
    /\ neg_sample_args # config.neg_sample_args

\* C3 as stated: set_splitting with strategy loo, or leave_one_out, called
\* while the grouping field is absent fails with MissingGrouping and leaves
\* the split spec unchanged; the call succeeds only when a grouping is set.
C3_LooRequiresGrouping ==
    [][(\/ call'.op = "leave_one_out"
        \/ (call'.op = "set_splitting" /\ call'.strategy = "loo"))
       => /\ group_field = PyNone
             => (err' = "MissingGrouping" /\ split_args' = split_args)
          /\ err' = "ok" => group_field # PyNone]_vars

\* C4: a successful set_ordering, set_splitting or set_neg_sampling call with
\* strategy s and extra fields E leaves that concern's spec equal to exactly
\* {strategy: s} together with E; shuffle() leaves exactly {strategy: shuffle}.
C4_FullReplace ==
    /\ (call.op = "set_ordering" /\ err = "ok")
          => ordering_args = StrategyWith(call.strategy, call.args)
    /\ (call.op = "set_splitting" /\ err = "ok")
          => split_args = StrategyWith(call.strategy, call.args)
    /\ (call.op = "set_neg_sampling" /\ err = "ok")
          => neg_sample_args = StrategyWith(call.strategy, call.args)
    /\ call.op = "shuffle"
          => ordering_args = Dict([strategy |-> PyStr("shuffle")])

C4_Witness ==
    /\ call.op = "shuffle"
    /\ err = "ok"
    /\ DOMAIN ordering_args.d = {"strategy"}

\* C5 as stated: sort_by(field) without ascending stores {strategy: by,
\* field: field, ascending: A} with A the scalar True when one field is given
\* (a name, or a one-element list) and otherwise a list of as many True
\* values as there are fields.
C5_DefaultAscending ==
    (call.op = "sort_by" /\ call.args.ascending = PyNone)
    => ordering_args =
         Dict([strategy |-> PyStr("by"),
               field |-> call.args.field,
               ascending |->
                  IF call.args.field.tag = "str" \/ Len(call.args.field.l) = 1
                  THEN PyTrue
                  ELSE PyList([i \in 1..Len(call.args.field.l) |-> PyTrue])])

\* C6 as stated: in every reachable state, a split spec with strategy
\* by_value has a values entry that is a list sorted per its ascending entry.
C6_ValuesAlwaysSorted ==
    HasStrategy(split_args, "by_value")
    => /\ {"values", "ascending"} \subseteq DOMAIN split_args.d
       /\ SortedPer(split_args.d.values, split_args.d.ascending)

\* C6 amended: in every state reached by a successful split_by_value call the
\* split spec has strategy by_value, its ascending entry is the one passed,
\* and its values entry is a list sorted per that ascending entry (a scalar
\* passed as values being stored as a one-element list).
C6_SortedAfterSplitByValue ==
    (call.op = "split_by_value" /\ err = "ok")
    => /\ C6_ValuesAlwaysSorted
       /\ HasStrategy(split_args, "by_value")
       /\ split_args.d.ascending = call.args.ascending
       /\ call.args.values.tag # "list"
             => split_args.d.values = PyList(<<call.args.values>>)

C6_Witness ==
    /\ call.op = "split_by_value"
    /\ err = "ok"
    /\ call.args.values = PyList(<<PyInt(7), PyInt(6)>>)
    /\ call.args.ascending = PyTrue
    /\ split_args.d.values = PyList(<<PyInt(6), PyInt(7)>>)

BothSequences ==
    /\ HasStrategy(ordering_args, "by")
    /\ {"field", "ascending"} \subseteq DOMAIN ordering_args.d
    /\ ordering_args.d.field.tag = "list"
    /\ ordering_args.d.ascending.tag = "list"

\* C7 as stated: in every reachable state, an ordering spec with strategy by
\* whose field and ascending entries are both lists has them of equal length.
C7_LengthsAlwaysMatch ==
    BothSequences
    => Len(ordering_args.d.field.l) = Len(ordering_args.d.ascending.l)

\* C7 amended: in every state reached by a sort_by call that omits ascending,
\* if the field and ascending entries of the ordering spec are both lists
\* then they have the same length.
C7_LengthsMatchByDefault ==
    (call.op = "sort_by" /\ call.args.ascending = PyNone)
    => C7_LengthsAlwaysMatch

C7_Witness ==
    /\ call.op = "sort_by"
    /\ call.args.ascending = PyNone
    /\ BothSequences
    /\ Len(ordering_args.d.field.l) = 2

\* C8: split_by_ratio with ratios that is not a list, and split_by_value with
\* field that is not a str, fail with TypeMismatch and leave all four specs
\* as they were before the call.
C8_TypeMismatchRejected ==
    [][(\/ (call'.op = "split_by_ratio" /\ call'.args.ratios.tag # "list")
        \/ (call'.op = "split_by_value" /\ call'.args.field.tag # "str"))
       => (err' = "TypeMismatch" /\ SpecsUnchanged)]_vars

C8_Witness ==
    /\ call.op = "split_by_ratio"
    /\ call.args.ratios = PyInt(8)
    /\ err = "TypeMismatch"
    /\ split_args # NoArgs

\* C9: from any state, full_sort() and neg_sample_to(-1) end in the same
\* record: the negative-sampling spec is {strategy: to, to: -1} and the
\* other three specs are what they were before the call.
C9_FullSortIsNegSampleToMinusOne ==
    [][(\/ call'.op = "full_sort"
        \/ (call'.op = "neg_sample_to" /\ call'.args.to = PyInt(-1)))
       => /\ err' = "ok"
          /\ neg_sample_args' = Dict([strategy |-> PyStr("to"), to |-> PyInt(-1)])
          /\ UNCHANGED <<group_field, ordering_args, split_args>>]_vars

C9_Witness ==
    /\ call.op = "full_sort"
    /\ neg_sample_args = Dict([strategy |-> PyStr("to"), to |-> PyInt(-1)])
    /\ split_args # NoArgs

GroupingOps == {"group_by", "group_by_user"}
OrderingOps == {"set_ordering", "shuffle", "sort_by"}
SplittingOps == {"set_splitting", "leave_one_out", "split_by_ratio", "split_by_value"}
NegSamplingOps == {"set_neg_sampling", "neg_sample_to", "full_sort", "neg_sample_by"}

\* C10: every setter changes at most the spec of its own concern: a grouping
\* call leaves ordering, splitting and negative sampling unchanged, an
\* ordering call leaves grouping, splitting and negative sampling unchanged,
\* and likewise for splitting and negative-sampling calls.
C10_Frame ==
    [][/\ call'.op \in GroupingOps
            => UNCHANGED <<ordering_args, split_args, neg_sample_args>>
       /\ call'.op \in OrderingOps
            => UNCHANGED <<group_field, split_args, neg_sample_args>>
       /\ call'.op \in SplittingOps
            => UNCHANGED <<group_field, ordering_args, neg_sample_args>>
       /\ call'.op \in NegSamplingOps
            => UNCHANGED <<group_field, ordering_args, split_args>>]_vars

C10_Witness ==
    /\ call.op = "neg_sample_by"
    /\ err = "ok"
    /\ group_field = PyStr("user_id")
    /\ HasStrategy(ordering_args, "by")
    /\ HasStrategy(split_args, "by_ratio")

====
